---- MODULE Spec2Model ----
(***************************************************************************)
(* Model of src/shoppingCart.js: class ShoppingCart and the data it is     *)
(* constructed on (ProductCatalog, pricingRules, promoCodes).              *)
(*                                                                         *)
(* Money.  Prices and line totals are integers in cents (24.90 -> 2490).   *)
(* The promo step multiplies by (1 - pct/100); its result is kept in       *)
(* hundredths of a cent, so that toFixed(2) has something to round.        *)
(* Binary floating point error is not modelled.                            *)
(*                                                                         *)
(* Objects.  A JS object is a function from its own keys; a rule record    *)
(* has exactly the fields the rule object has, so that the spread of       *)
(* updatePricingRule is a function merge.  The catalog and the rule list   *)
(* are reached through references (heapCatalog, heapRules), because every  *)
(* cart keeps a reference to the objects its constructor was given.        *)
(***************************************************************************)
EXTENDS Integers, Sequences, FiniteSets, TLC

VARIABLES
    heapCatalog,     \* reference -> catalog object (key -> product)
    heapRules,       \* reference -> array of rule objects
    productCatalog,  \* cart -> reference held in this.productCatalog
    pricingRules,    \* cart -> reference held in this.pricingRules
    cartItems,       \* cart -> this.cartItems
    promoCode,       \* cart -> this.promoCode
    last,            \* the last call: operation, cart, arguments, outcome
    added,           \* history: cart -> the codes appended by add(), in order
    mut,             \* history: the store mutations and who has evaluated since
    nUpdates         \* number of store updates made so far

vars == <<heapCatalog, heapRules, productCatalog, pricingRules, cartItems,
          promoCode, last, added, mut, nUpdates>>

-----------------------------------------------------------------------------
(* Bounds *)

MaxCart == 4

MaxUpdates == 1

MaxStoreCart == 2

-----------------------------------------------------------------------------
(* Values *)

NULL == "null"

UNDEFINED == "undefined"

\* JS truthiness of a promo code argument or slot: null and "" are falsy.
Truthy(v) == v # NULL /\ v # UNDEFINED /\ v # ""

Carts == {1, 2}

\* The reference of the object handed to every constructor (runScenarios),
\* and one further reference per cart (an object only a copy would live at).
SharedRef == 0

Refs == {SharedRef} \cup Carts

ProductCatalog ==
    [SMALL  |-> [code |-> "ult_small",  name |-> "Unlimited 1GB", price |-> 2490],
     MEDIUM |-> [code |-> "ult_medium", name |-> "Unlimited 2GB", price |-> 2990],
     LARGE  |-> [code |-> "ult_large",  name |-> "Unlimited 5GB", price |-> 4490],
     ONE_GB |-> [code |-> "1gb",        name |-> "1GB Data-pack", price |-> 990]]

\* Object.values order of the catalog: its keys in insertion order.
CatalogKeys == <<"SMALL", "MEDIUM", "LARGE", "ONE_GB">>

SrcPricingRules ==
    << [type |-> "buyXGetFreeY", applicableTo |-> <<"ult_small", "ult_medium">>,
        x |-> 3, y |-> 1],
       [type |-> "bulkDiscount", applicableTo |-> <<"ult_large">>,
        bulkQuantity |-> 3, bulkPrice |-> 3990],
       [type |-> "freeItem", applicableTo |-> <<"ult_medium">>,
        freeItem |-> "1gb"] >>

PromoCodesTable == ("I<3AMAYSIM" :> 10) @@ ("SAMPLE_DISCOUNT20" :> 20)

-----------------------------------------------------------------------------
(* Helpers of the class *)

\* Array.prototype.includes
Includes(arr, v) == \E i \in DOMAIN arr : arr[i] = v

\* Object.values(catalog).find(p => p.code === itemCode): the index in
\* CatalogKeys of the first product with that code, 0 when there is none.
FindIndex(cat, itemCode) ==
    LET hits == {i \in DOMAIN CatalogKeys : cat[CatalogKeys[i]].code = itemCode}
    IN  IF hits = {} THEN 0 ELSE CHOOSE i \in hits : \A j \in hits : i <= j

HasProduct(cat, itemCode) == FindIndex(cat, itemCode) # 0

FindProduct(cat, itemCode) == cat[CatalogKeys[FindIndex(cat, itemCode)]]

\* The keys of the grouping object in Object.entries order: the distinct
\* entries of the array in first-seen order.
RECURSIVE GroupKeys(_)
GroupKeys(items) ==
    IF items = <<>> THEN <<>>
    ELSE LET n    == Len(items)
             init == SubSeq(items, 1, n - 1)
         IN  IF Includes(init, items[n]) THEN GroupKeys(init)
             ELSE Append(GroupKeys(init), items[n])

\* groupedItems[k] after the grouping loop
GroupCount(items, k) == Cardinality({i \in DOMAIN items : items[i] = k})

\* n copies of v, as pushed by the freeItem loop
RECURSIVE Repeat(_, _)
Repeat(v, n) == IF n <= 0 THEN <<>> ELSE Append(Repeat(v, n - 1), v)

-----------------------------------------------------------------------------
(* total(): the rule switch, one operator per case *)

Has(obj, f) == f \in DOMAIN obj

\* A comparison with an absent (undefined) field is false.
BuyXFires(rule, quantity) == Has(rule, "x") /\ quantity >= rule.x

BulkFires(rule, quantity) == Has(rule, "bulkQuantity") /\ quantity >= rule.bulkQuantity

\* A plausible slip: the deduction taken once, not once per full set.
BuyXGetFreeYOnce(rule, quantity, itemPrice, itemTotal) ==
    IF BuyXFires(rule, quantity) THEN itemTotal - itemPrice ELSE itemTotal

\* case 'buyXGetFreeY'
BuyXGetFreeY(rule, quantity, itemPrice, itemTotal) ==
    IF BuyXFires(rule, quantity)
    THEN LET fullSets == quantity \div rule.x
         IN  itemTotal - itemPrice * fullSets
    ELSE itemTotal

\* A plausible slip: the bulk saving taken off the running total.
BulkDiscountAdditive(rule, quantity, itemPrice, itemTotal) ==
    IF BulkFires(rule, quantity)
    THEN itemTotal - (itemPrice - rule.bulkPrice) * quantity
    ELSE itemTotal

\* case 'bulkDiscount'
BulkDiscount(rule, quantity, itemPrice, itemTotal) ==
    IF BulkFires(rule, quantity) THEN rule.bulkPrice * quantity ELSE itemTotal

\* case 'freeItem': what the loop pushes onto this.cartItems
FreeItemPushes(rule, quantity) ==
    Repeat(IF Has(rule, "freeItem") THEN rule.freeItem ELSE UNDEFINED, quantity)

\* One pass of the rule loop body: the running line total after `rule`.
ApplyRule(rule, itemCode, quantity, itemPrice, itemTotal) ==
    IF ~Includes(rule.applicableTo, itemCode) THEN itemTotal
    ELSE CASE rule.type = "buyXGetFreeY" ->
                BuyXGetFreeY(rule, quantity, itemPrice, itemTotal)
           [] rule.type = "bulkDiscount" ->
                BulkDiscount(rule, quantity, itemPrice, itemTotal)
           [] OTHER -> itemTotal

\* One pass of the rule loop body: what it pushes onto this.cartItems.
RulePushes(rule, itemCode, quantity) ==
    IF Includes(rule.applicableTo, itemCode) /\ rule.type = "freeItem"
    THEN FreeItemPushes(rule, quantity)
    ELSE <<>>

\* const itemPrice = product?.price || 0
ItemPrice(cat, itemCode) ==
    IF HasProduct(cat, itemCode) THEN FindProduct(cat, itemCode).price ELSE 0

\* itemTotal after the first k rules of the rule loop
RECURSIVE LineTotalAfter(_, _, _, _, _)
LineTotalAfter(rules, k, itemCode, quantity, itemPrice) ==
    IF k = 0 THEN itemPrice * quantity
    ELSE ApplyRule(rules[k], itemCode, quantity, itemPrice,
                   LineTotalAfter(rules, k - 1, itemCode, quantity, itemPrice))

\* itemTotal as added to totalPrice
LineTotal(cat, rules, itemCode, quantity) ==
    LineTotalAfter(rules, Len(rules), itemCode, quantity, ItemPrice(cat, itemCode))

\* everything the rule loop pushes for one line, in rule order
RECURSIVE LinePushes(_, _, _, _)
LinePushes(rules, k, itemCode, quantity) ==
    IF k = 0 THEN <<>>
    ELSE LinePushes(rules, k - 1, itemCode, quantity)
           \o RulePushes(rules[k], itemCode, quantity)

\* totalPrice after the first n entries of Object.entries(groupedItems)
RECURSIVE TotalPriceAfter(_, _, _, _)
TotalPriceAfter(items, n, cat, rules) ==
    IF n = 0 THEN 0
    ELSE LET itemCode == GroupKeys(items)[n]
         IN  TotalPriceAfter(items, n - 1, cat, rules)
               + LineTotal(cat, rules, itemCode, GroupCount(items, itemCode))

\* totalPrice when the loop over the lines ends (cents)
TotalPrice(items, cat, rules) ==
    TotalPriceAfter(items, Len(GroupKeys(items)), cat, rules)

\* what the whole call pushes onto this.cartItems, in line order
RECURSIVE TotalPushesAfter(_, _, _)
TotalPushesAfter(items, n, rules) ==
    IF n = 0 THEN <<>>
    ELSE LET itemCode == GroupKeys(items)[n]
         IN  TotalPushesAfter(items, n - 1, rules)
               \o LinePushes(rules, Len(rules), itemCode, GroupCount(items, itemCode))

TotalPushes(items, rules) == TotalPushesAfter(items, Len(GroupKeys(items)), rules)

\* this.promoCode && this.promoCodes[this.promoCode]
PromoResolves(promo) ==
    Truthy(promo) /\ promo \in DOMAIN PromoCodesTable /\ PromoCodesTable[promo] # 0

\* A plausible slip: the percentage taken off twice.
PromoStepTwice(totalPrice, promo) ==
    IF PromoResolves(promo)
    THEN (totalPrice * (100 - PromoCodesTable[promo]) * (100 - PromoCodesTable[promo])) \div 100
    ELSE totalPrice * 100

\* The promo step.  Input in cents, result in hundredths of a cent.
PromoStep(totalPrice, promo) ==
    IF PromoResolves(promo)
    THEN totalPrice * (100 - PromoCodesTable[promo])
    ELSE totalPrice * 100

\* Number.prototype.toFixed(2) of an amount given in hundredths of a cent:
\* rounded to the nearest cent, a tie away from zero, two decimals printed.
Round2(v) == IF v >= 0 THEN (v + 50) \div 100 ELSE -((-v + 50) \div 100)

ToFixed2(v) ==
    LET n == IF v >= 0 THEN Round2(v) ELSE -Round2(v)
        d == n % 100
    IN  (IF v < 0 THEN "-" ELSE "") \o ToString(n \div 100) \o "."
          \o (IF d < 10 THEN "0" ELSE "") \o ToString(d)

\* the value total() returns
TotalResult(items, promo, cat, rules) ==
    ToFixed2(PromoStep(TotalPrice(items, cat, rules), promo))

-----------------------------------------------------------------------------
(* items() and generateFinalCart() *)

\* product ? product.name : itemCode
DisplayName(cat, itemCode) ==
    IF HasProduct(cat, itemCode) THEN FindProduct(cat, itemCode).name ELSE itemCode

ItemsResult(items, cat) == [i \in DOMAIN items |-> DisplayName(cat, items[i])]

\* `${quantity} x ${name}`
FormatLine(quantity, name) == ToString(quantity) \o " x " \o name

GenerateFinalCartResult(items, cat) ==
    LET names == ItemsResult(items, cat)
        keys  == GroupKeys(names)
    IN  [i \in DOMAIN keys |-> FormatLine(GroupCount(names, keys[i]), keys[i])]

-----------------------------------------------------------------------------
(* The class: constructor and methods *)

\* A plausible slip: the constructor keeps a copy of its argument.
ConstructorRulesCopy(rulesArg, c) == c

\* this.pricingRules = pricingRules: the reference itself is kept
ConstructorRules(rulesArg, c) == rulesArg

\* this.productCatalog = productCatalog
ConstructorCatalog(catalogArg, c) == catalogArg

\* the objects a cart reads through its two references
Catalog(c) == heapCatalog[productCatalog[c]]

Rules(c) == heapRules[pricingRules[c]]

Call(op, c, args, threw, result) ==
    [op |-> op, cart |-> c, args |-> args, threw |-> threw, result |-> result]

\* A plausible slip: the push made before the lookup is checked.
AddPushFirst(c, itemCode, promo) ==
    /\ cartItems' = [cartItems EXCEPT ![c] = Append(@, itemCode)]
    /\ added' = [added EXCEPT ![c] = Append(@, itemCode)]
    /\ IF ~HasProduct(Catalog(c), itemCode)
       THEN /\ last' = Call("add", c, <<itemCode, promo>>, TRUE, <<>>)
            /\ UNCHANGED promoCode
       ELSE /\ promoCode' = [promoCode EXCEPT ![c] = IF Truthy(promo) THEN promo ELSE @]
            /\ last' = Call("add", c, <<itemCode, promo>>, FALSE, <<>>)
    /\ UNCHANGED <<heapCatalog, heapRules, productCatalog, pricingRules, mut, nUpdates>>

\* A plausible slip: the slot assigned whatever was passed.
AddPromoAlways(c, itemCode, promo) ==
    /\ IF ~HasProduct(Catalog(c), itemCode)
       THEN /\ last' = Call("add", c, <<itemCode, promo>>, TRUE, <<>>)
            /\ UNCHANGED <<cartItems, promoCode, added>>
       ELSE /\ cartItems' = [cartItems EXCEPT ![c] = Append(@, itemCode)]
            /\ added' = [added EXCEPT ![c] = Append(@, itemCode)]
            /\ promoCode' = [promoCode EXCEPT ![c] = promo]
            /\ last' = Call("add", c, <<itemCode, promo>>, FALSE, <<>>)
    /\ UNCHANGED <<heapCatalog, heapRules, productCatalog, pricingRules, mut, nUpdates>>

\* add(itemCode, promoCode = null)
Add(c, itemCode, promo) ==
    /\ IF ~HasProduct(Catalog(c), itemCode)
       THEN /\ last' = Call("add", c, <<itemCode, promo>>, TRUE, <<>>)
            /\ UNCHANGED <<cartItems, promoCode, added>>
       ELSE /\ cartItems' = [cartItems EXCEPT ![c] = Append(@, itemCode)]
            /\ added' = [added EXCEPT ![c] = Append(@, itemCode)]
            /\ promoCode' = [promoCode EXCEPT ![c] = IF Truthy(promo) THEN promo ELSE @]
            /\ last' = Call("add", c, <<itemCode, promo>>, FALSE, <<>>)
    /\ UNCHANGED <<heapCatalog, heapRules, productCatalog, pricingRules, mut, nUpdates>>

\* total(): groups this.cartItems, prices the lines, pushes the free items
\* onto this.cartItems, applies the promo code and formats the result.
Total(c) ==
    /\ cartItems' = [cartItems EXCEPT ![c] = @ \o TotalPushes(@, Rules(c))]
    /\ last' = Call("total", c, <<>>, FALSE,
                    <<TotalResult(cartItems[c], promoCode[c], Catalog(c), Rules(c))>>)
    /\ mut' = [mut EXCEPT !.pending = @ \ {c},
                          !.reflected = IF c \in mut.pending THEN @ \cup {c} ELSE @]
    /\ UNCHANGED <<heapCatalog, heapRules, productCatalog, pricingRules,
                   promoCode, added, nUpdates>>

\* items()
Items(c) ==
    /\ last' = Call("items", c, <<>>, FALSE, ItemsResult(cartItems[c], Catalog(c)))
    /\ UNCHANGED <<heapCatalog, heapRules, productCatalog, pricingRules,
                   cartItems, promoCode, added, mut, nUpdates>>

\* generateFinalCart()
GenerateFinalCart(c) ==
    /\ last' = Call("generateFinalCart", c, <<>>, FALSE,
                    GenerateFinalCartResult(cartItems[c], Catalog(c)))
    /\ UNCHANGED <<heapCatalog, heapRules, productCatalog, pricingRules,
                   cartItems, promoCode, added, mut, nUpdates>>

\* { ...rule, ...newDetails }
Merge(rule, newDetails) ==
    [f \in DOMAIN rule \cup DOMAIN newDetails |->
        IF f \in DOMAIN newDetails THEN newDetails[f] ELSE rule[f]]

\* history: a store mutation made through cart c
Mutated(c) ==
    [by |-> c, pending |-> {b \in Carts : cartItems[b] # <<>>}, reflected |-> {}]

\* updatePricingRule(ruleIndex, newDetails); ruleIndex is 0-based
UpdatePricingRule(c, ruleIndex, newDetails) ==
    /\ IF ruleIndex >= 0 /\ ruleIndex < Len(Rules(c))
       THEN /\ heapRules' = [heapRules EXCEPT ![pricingRules[c]][ruleIndex + 1] =
                                Merge(@, newDetails)]
            /\ mut' = Mutated(c)
            /\ nUpdates' = nUpdates + 1
       ELSE UNCHANGED <<heapRules, mut, nUpdates>>
    /\ last' = Call("updatePricingRule", c, <<ruleIndex, newDetails>>, FALSE, <<>>)
    /\ UNCHANGED <<heapCatalog, productCatalog, pricingRules, cartItems, promoCode, added>>

\* A plausible slip: the lookup result used without the check.
UpdateProductPriceUnguarded(c, productKey, newPrice) ==
    /\ IF productKey \in DOMAIN Catalog(c)
       THEN /\ heapCatalog' = [heapCatalog EXCEPT ![productCatalog[c]][productKey].price =
                                  newPrice]
            /\ mut' = Mutated(c)
            /\ nUpdates' = nUpdates + 1
            /\ last' = Call("updateProductPrice", c, <<productKey, newPrice>>, FALSE, <<>>)
       ELSE /\ UNCHANGED <<heapCatalog, mut, nUpdates>>
            /\ last' = Call("updateProductPrice", c, <<productKey, newPrice>>, TRUE, <<>>)
    /\ UNCHANGED <<heapRules, productCatalog, pricingRules, cartItems, promoCode, added>>

\* updateProductPrice(productKey, newPrice)
UpdateProductPrice(c, productKey, newPrice) ==
    /\ IF productKey \in DOMAIN Catalog(c)
       THEN /\ heapCatalog' = [heapCatalog EXCEPT ![productCatalog[c]][productKey].price =
                                  newPrice]
            /\ mut' = Mutated(c)
            /\ nUpdates' = nUpdates + 1
       ELSE UNCHANGED <<heapCatalog, mut, nUpdates>>
    /\ last' = Call("updateProductPrice", c, <<productKey, newPrice>>, FALSE, <<>>)
    /\ UNCHANGED <<heapRules, productCatalog, pricingRules, cartItems, promoCode, added>>

-----------------------------------------------------------------------------
(* Inputs *)

\* the catalog's four codes and one code no product has
ItemCodes == {"ult_small", "ult_medium", "ult_large", "1gb", "ult_xl"}

\* omitted (null), empty, a code of the table, a code the table does not have
PromoArgs == {NULL, "", "I<3AMAYSIM", "NOPE"}

\* Rule lists a cart may be constructed on: the repository's own, and two on
\* which a buyXGetFreeY and a bulkDiscount rule meet on one product, in
\* either store order.
BuyThenBulk ==
    << [type |-> "buyXGetFreeY", applicableTo |-> <<"ult_small", "ult_medium">>,
        x |-> 2, y |-> 1],
       [type |-> "bulkDiscount", applicableTo |-> <<"ult_small">>,
        bulkQuantity |-> 3, bulkPrice |-> 1990],
       [type |-> "freeItem", applicableTo |-> <<"ult_medium">>,
        freeItem |-> "1gb"] >>

BulkThenBuy == <<BuyThenBulk[2], BuyThenBulk[1], BuyThenBulk[3]>>

\* the repository's list after the two updatePricingRule calls of runScenarios
UpdatedPricingRules ==
    << [type |-> "buyXGetFreeY", applicableTo |-> <<"ult_small", "ult_medium">>,
        x |-> 2, y |-> 1],
       [type |-> "bulkDiscount", applicableTo |-> <<"ult_large">>,
        bulkQuantity |-> 5, bulkPrice |-> 4090],
       [type |-> "freeItem", applicableTo |-> <<"ult_medium">>,
        freeItem |-> "1gb"] >>

InitRuleLists == {SrcPricingRules, UpdatedPricingRules, BuyThenBulk, BulkThenBuy}

\* Catalogs a cart may be constructed on: the repository's own, and the same
\* after the updateProductPrice call of runScenarios.
UpdatedCatalog == [ProductCatalog EXCEPT !.SMALL.price = 2500]

InitCatalogs == {ProductCatalog, UpdatedCatalog}

\* updatePricingRule arguments: the two calls of runScenarios, a free item
\* that is no product, and a change of a rule's type.
RuleIndexes == {-1, 0, 2, 3}

RuleDetails ==
    { [x |-> 2, y |-> 1],
      [freeItem |-> "sim_card"],
      [type |-> "freeItem"] }

\* updateProductPrice arguments: the call of runScenarios on another key,
\* and a key the catalog does not have
ProductKeys == {"MEDIUM", "XL"}

NewPrices == {2500}

StoreItemCodes == {"ult_medium", "ult_xl"}

NoCall == Call("new", 0, <<>>, FALSE, <<>>)

NoMutation == [by |-> 0, pending |-> {}, reflected |-> {}]

-----------------------------------------------------------------------------
(* Specifications *)

\* The state after `new ShoppingCart(catalog, rules, promoCodes)` for every
\* cart, all on the same catalog and rule list objects.
Constructed(catalog, rules) ==
    /\ heapCatalog = [r \in Refs |-> catalog]
    /\ heapRules = [r \in Refs |-> rules]
    /\ productCatalog = [c \in Carts |-> ConstructorCatalog(SharedRef, c)]
    /\ pricingRules = [c \in Carts |-> ConstructorRules(SharedRef, c)]
    /\ cartItems = [c \in Carts |-> <<>>]
    /\ promoCode = [c \in Carts |-> NULL]
    /\ last = NoCall
    /\ added = [c \in Carts |-> <<>>]
    /\ mut = NoMutation
    /\ nUpdates = 0

\* what a call of total() would leave in the cart stays within the bound
TotalFits(c, max) == Len(cartItems[c]) + Len(TotalPushes(cartItems[c], Rules(c))) <= max

\* One cart, every code and promo argument, on each catalog and rule list.
Init == \E catalog \in InitCatalogs, rules \in InitRuleLists : Constructed(catalog, rules)

Next ==
    \/ \E itemCode \in ItemCodes, promo \in PromoArgs :
          Len(cartItems[1]) < MaxCart /\ Add(1, itemCode, promo)
    \/ TotalFits(1, MaxCart) /\ Total(1)
    \/ Items(1)
    \/ GenerateFinalCart(1)

Spec == Init /\ [][Next]_vars

\* Two carts on one store, and the store's two update operations.
InitStore == Constructed(ProductCatalog, SrcPricingRules)

NextStore ==
    \/ \E c \in Carts, itemCode \in StoreItemCodes :
          Len(cartItems[c]) < MaxStoreCart /\ Add(c, itemCode, NULL)
    \/ \E c \in Carts : TotalFits(c, MaxStoreCart) /\ Total(c)
    \/ \E c \in Carts : Items(c)
    \/ \E c \in Carts : GenerateFinalCart(c)
    \/ \E c \in Carts, ruleIndex \in RuleIndexes, newDetails \in RuleDetails :
          nUpdates < MaxUpdates /\ UpdatePricingRule(c, ruleIndex, newDetails)
    \/ \E c \in Carts, productKey \in ProductKeys, newPrice \in NewPrices :
          nUpdates < MaxUpdates /\ UpdateProductPrice(c, productKey, newPrice)

SpecStore == InitStore /\ [][NextStore]_vars

-----------------------------------------------------------------------------
(* Vocabulary of the claims *)

\* the step just taken was a call of `op` (every call writes `last`)
Called(op) == last'.op = op

\* the distinct codes of an item sequence
CodesOf(items) == {items[i] : i \in DOMAIN items}

\* sum of the line totals, one line per distinct code, in no particular order
RECURSIVE SumOfLines(_, _, _, _)
SumOfLines(codes, items, cat, rules) ==
    IF codes = {} THEN 0
    ELSE LET code == CHOOSE k \in codes : TRUE
         IN  LineTotal(cat, rules, code, GroupCount(items, code))
               + SumOfLines(codes \ {code}, items, cat, rules)

\* rule k of `rules` is on the line of `code`
OnLine(rules, k, code) == Includes(rules[k].applicableTo, code)

\* rule k changes the running total of the line (code, q)
PriceRuleFires(rules, k, code, q) ==
    /\ OnLine(rules, k, code)
    /\ \/ rules[k].type = "buyXGetFreeY" /\ BuyXFires(rules[k], q)
       \/ rules[k].type = "bulkDiscount" /\ BulkFires(rules[k], q)

\* rules i < j: a buyXGetFreeY and then a bulkDiscount, both firing on the line
BuyThenBulkFire(rules, i, j, code, q) ==
    /\ i < j
    /\ rules[i].type = "buyXGetFreeY" /\ PriceRuleFires(rules, i, code, q)
    /\ rules[j].type = "bulkDiscount" /\ PriceRuleFires(rules, j, code, q)

\* the rule list with the rules at i and j exchanged
Swapped(rules, i, j) ==
    [k \in DOMAIN rules |-> IF k = i THEN rules[j] ELSE IF k = j THEN rules[i] ELSE rules[k]]

\* number of lines of the final cart display that show `name`, and the
\* quantity such a line must show
ShownAs(result, quantity, name) ==
    IF quantity = 0
    THEN \A i \in DOMAIN result, n \in 1..(MaxCart + 1) : result[i] # FormatLine(n, name)
    ELSE Includes(result, FormatLine(quantity, name))

-----------------------------------------------------------------------------
(* Claims *)

\* C1 (as stated): whenever total() has returned, its value is the price of
\* the units added through add() alone; units appended by the freeItem side
\* effect contribute nothing, in the call that appends them and in later calls.
C1_FreeUnitsNeverPriced ==
    last.op = "total" =>
        last.result = <<TotalResult(added[last.cart], promoCode[last.cart],
                                    Catalog(last.cart), Rules(last.cart))>>

\* C2 (as stated): whenever generateFinalCart() has returned, for every
\* freeItem rule with free product F and every product T it applies to of
\* which q > 0 units were added through add(), the display shows F with the
\* quantity (units of F added through add()) + q, whether or not total() was
\* called before and however often.
C2_FreeUnitsShownExactly ==
    last.op = "generateFinalCart" =>
        LET c == last.cart
            rules == Rules(c)
        IN  \A k \in DOMAIN rules :
              (rules[k].type = "freeItem" /\ Has(rules[k], "freeItem")) =>
                \A i \in DOMAIN rules[k].applicableTo :
                  LET T == rules[k].applicableTo[i]
                      F == rules[k].freeItem
                      q == GroupCount(added[c], T)
                  IN  q > 0 =>
                        ShownAs(last.result, GroupCount(added[c], F) + q,
                                DisplayName(Catalog(c), F))

\* C3: a call of add with a code no catalog product has throws, and leaves
\* cartItems and the promo-code slot of every cart as they were, whatever
\* promo code was passed.
C3_AddUnknownLeavesCart ==
    [][ (Called("add") /\ ~HasProduct(Catalog(last'.cart), last'.args[1])) =>
          (last'.threw /\ cartItems' = cartItems /\ promoCode' = promoCode) ]_vars

C3_Witness ==
    /\ last.op = "add" /\ last.threw
    /\ last.args = <<"ult_xl", "I<3AMAYSIM">>
    /\ cartItems[1] = <<"ult_small">>
    /\ promoCode[1] = "NOPE"

\* C4: an update that succeeds through one cart changes the product or the
\* rule every cart reads, and every later total() of any cart returns the
\* value computed from that cart's items (added before the update or not),
\* on the catalog and the rule list as last written.
LatestCatalog == IF mut.by = 0 THEN heapCatalog[SharedRef] ELSE Catalog(mut.by)

LatestRules == IF mut.by = 0 THEN heapRules[SharedRef] ELSE Rules(mut.by)

C4_StoreMutationVisible ==
    [][ /\ (Called("updateProductPrice") /\ last'.args[1] \in DOMAIN Catalog(last'.cart)) =>
              \A b \in Carts : Catalog(b)'[last'.args[1]].price = last'.args[2]
        /\ (Called("updatePricingRule") /\ last'.args[1] >= 0
                /\ last'.args[1] < Len(Rules(last'.cart))) =>
              \A b \in Carts :
                 Rules(b)'[last'.args[1] + 1] =
                    Merge(Rules(last'.cart)[last'.args[1] + 1], last'.args[2])
        /\ Called("total") =>
              last'.result = <<TotalResult(cartItems[last'.cart], promoCode[last'.cart],
                                           LatestCatalog, LatestRules)>> ]_vars

C4_Witness ==
    /\ last.op = "total" /\ last.cart = 2
    /\ mut.by = 1 /\ 2 \in mut.reflected
    /\ added[2] # <<>>
    /\ last.result = <<TotalResult(added[2], promoCode[2], Catalog(2), Rules(2))>>
    /\ last.result # <<TotalResult(added[2], promoCode[2], ProductCatalog, SrcPricingRules)>>

\* C5: when total() prices a line on which a buyXGetFreeY rule and a later
\* bulkDiscount rule both fire, the running line total after the bulk rule is
\* bulkPrice * q; it is the line total when no later rule changes it (and the
\* returned total of a one-line cart); with the two rules exchanged, and no
\* other rule changing the line, the line total is bulkPrice * q less the
\* buyXGetFreeY deduction, so the order decides.
C5_LaterRuleWins ==
    [][ Called("total") =>
          LET c == last'.cart
              items == cartItems[c]
              rules == Rules(c)
              cat == Catalog(c)
          IN  \A code \in CodesOf(items) : \A i, j \in DOMAIN rules :
                LET q == GroupCount(items, code)
                    p == ItemPrice(cat, code)
                    bulk == rules[j].bulkPrice * q
                IN  BuyThenBulkFire(rules, i, j, code, q) =>
                      /\ LineTotalAfter(rules, j, code, q, p) = bulk
                      /\ (\A k \in (j + 1)..Len(rules) : ~PriceRuleFires(rules, k, code, q)) =>
                            /\ LineTotal(cat, rules, code, q) = bulk
                            /\ CodesOf(items) = {code} =>
                                 last'.result =
                                    <<ToFixed2(IF PromoResolves(promoCode[c])
                                               THEN bulk * (100 - PromoCodesTable[promoCode[c]])
                                               ELSE bulk * 100)>>
                      /\ (\A k \in DOMAIN rules \ {i, j} : ~PriceRuleFires(rules, k, code, q)) =>
                            LineTotal(cat, Swapped(rules, i, j), code, q) =
                               bulk - p * (q \div rules[i].x) ]_vars

C5_Witness ==
    /\ last.op = "total"
    /\ Rules(1) = BuyThenBulk /\ Catalog(1) = ProductCatalog
    /\ added[1] = <<"ult_small", "ult_small", "ult_small">>
    /\ promoCode[1] = NULL
    /\ last.result = <<"59.70">>
    /\ LineTotal(Catalog(1), Swapped(Rules(1), 1, 2), "ult_small", 3) = 3480

\* C6: every call of total() returns the sum of the line totals, taken off
\* once by the percentage when the promo-code slot resolves in the table and
\* as it is otherwise, rounded to two decimals; also in a repeated call.
C6_PromoOnceOnGrandTotal ==
    [][ Called("total") =>
          LET c == last'.cart
              sum == SumOfLines(CodesOf(cartItems[c]), cartItems[c], Catalog(c), Rules(c))
              pct == IF promoCode[c] \in DOMAIN PromoCodesTable
                     THEN PromoCodesTable[promoCode[c]] ELSE 0
          IN  last'.result = <<ToFixed2(sum * (100 - pct))>> ]_vars

C6_Witness ==
    /\ last.op = "total"
    /\ promoCode[1] = "I<3AMAYSIM"
    /\ Cardinality(CodesOf(added[1])) >= 2
    /\ Len(cartItems[1]) > Len(added[1]) + Len(TotalPushes(added[1], Rules(1)))

\* C7 (as stated): the slot is null at first, a successful add with a non-null
\* promo code sets it to that code, and nothing else changes it.
C7_LastNonNullWins ==
    /\ \A c \in Carts : promoCode[c] = NULL
    /\ [][ \A c \in Carts :
             promoCode'[c] =
                IF Called("add") /\ last'.cart = c /\ ~last'.threw /\ last'.args[2] # NULL
                THEN last'.args[2] ELSE promoCode[c] ]_vars

\* C7 (amended): the slot is null at first, a successful add with a promo code
\* that is neither null nor the empty string sets it to that code, and
\* nothing else changes it: not an add with null or "", not a failed add, not
\* another operation.
C7_LastTruthyWins ==
    /\ \A c \in Carts : promoCode[c] = NULL
    /\ [][ \A c \in Carts :
             promoCode'[c] =
                IF Called("add") /\ last'.cart = c /\ ~last'.threw
                     /\ last'.args[2] # NULL /\ last'.args[2] # ""
                THEN last'.args[2] ELSE promoCode[c] ]_vars

C7_Witness ==
    /\ last.op = "add" /\ ~last.threw
    /\ last.args[2] = ""
    /\ promoCode[1] = "I<3AMAYSIM"

\* C8: updatePricingRule with an index outside [0, length) and
\* updateProductPrice with a key the catalog does not have return without
\* throwing and leave the rule list, the catalog and every cart unchanged.
C8_InvalidUpdateIsNoOp ==
    [][ (\/ Called("updatePricingRule")
              /\ ~(last'.args[1] >= 0 /\ last'.args[1] < Len(Rules(last'.cart)))
         \/ Called("updateProductPrice") /\ last'.args[1] \notin DOMAIN Catalog(last'.cart))
        => (/\ ~last'.threw
            /\ heapRules' = heapRules /\ heapCatalog' = heapCatalog
            /\ cartItems' = cartItems /\ promoCode' = promoCode) ]_vars

C8_Witness ==
    /\ last.op = "updatePricingRule" /\ ~last.threw
    /\ last.args[1] = Len(Rules(last.cart))
    /\ cartItems[last.cart] # <<>>

\* C9: when total() prices a line of q units at unit price p, every
\* buyXGetFreeY rule on the line with x >= 1 takes p * floor(q / x) off the
\* running line total, whatever the earlier rules made of it; with no other
\* rule on the line the line total is p * (q - floor(q / x)); on the
\* repository's rules three units of ult_small alone cost 49.80, four 74.70.
C9_BuyXDeduction ==
    [][ Called("total") =>
          LET c == last'.cart
              items == cartItems[c]
              rules == Rules(c)
              cat == Catalog(c)
          IN  /\ \A code \in CodesOf(items) : \A k \in DOMAIN rules :
                   LET q == GroupCount(items, code)
                       p == ItemPrice(cat, code)
                   IN  (OnLine(rules, k, code) /\ rules[k].type = "buyXGetFreeY"
                          /\ Has(rules[k], "x") /\ rules[k].x >= 1) =>
                         /\ LineTotalAfter(rules, k, code, q, p) =
                               LineTotalAfter(rules, k - 1, code, q, p)
                                  - p * (q \div rules[k].x)
                         /\ (\A m \in DOMAIN rules \ {k} : ~OnLine(rules, m, code)) =>
                               LineTotal(cat, rules, code, q) = p * (q - (q \div rules[k].x))
              /\ (rules = SrcPricingRules /\ cat = ProductCatalog /\ promoCode[c] = NULL) =>
                   /\ items = <<"ult_small", "ult_small", "ult_small">> =>
                         last'.result = <<"49.80">>
                   /\ items = <<"ult_small", "ult_small", "ult_small", "ult_small">> =>
                         last'.result = <<"74.70">> ]_vars

C9_Witness ==
    /\ last.op = "total"
    /\ Rules(1) = SrcPricingRules /\ Catalog(1) = ProductCatalog
    /\ cartItems[1] = <<"ult_small", "ult_small", "ult_small", "ult_small">>
    /\ last.result = <<"74.70">>

\* C10 (as stated): every entry of cartItems is the code of a catalog product.
C10_EntriesAreCatalogCodes ==
    \A c \in Carts : \A i \in DOMAIN cartItems[c] : HasProduct(Catalog(c), cartItems[c][i])

\* C10 (amended): add appends one entry, a catalog code, or nothing; total()
\* appends only values of the freeItem field (undefined when there is none)
\* of freeItem rules that apply to a code in the cart; no other operation
\* changes cartItems.  An entry that is no catalog code is such a value.
AppendedBy(c) == SubSeq(cartItems'[c], Len(cartItems[c]) + 1, Len(cartItems'[c]))

C10_EntriesAreCatalogOrFreeItem ==
    [][ \A c \in Carts :
          /\ Len(cartItems'[c]) >= Len(cartItems[c])
          /\ SubSeq(cartItems'[c], 1, Len(cartItems[c])) = cartItems[c]
          /\ \A i \in DOMAIN AppendedBy(c) :
               \/ /\ Called("add") /\ last'.cart = c /\ Len(AppendedBy(c)) = 1
                  /\ AppendedBy(c)[i] = last'.args[1]
                  /\ HasProduct(Catalog(c), AppendedBy(c)[i])
               \/ /\ Called("total") /\ last'.cart = c
                  /\ \E k \in DOMAIN Rules(c) :
                        /\ Rules(c)[k].type = "freeItem"
                        /\ \E code \in CodesOf(cartItems[c]) : OnLine(Rules(c), k, code)
                        /\ AppendedBy(c)[i] =
                              (IF Has(Rules(c)[k], "freeItem")
                               THEN Rules(c)[k].freeItem ELSE UNDEFINED) ]_vars

C10_Witness ==
    /\ last.op = "total"
    /\ added[1] = <<"ult_medium">>
    /\ cartItems[1] = <<"ult_medium", "sim_card">>

====
